---- MODULE Spec2Model ----
(***************************************************************************)
(* A model of the silent-payment (BIP-352) engine of shakesco-silent:      *)
(* the Bech32m codec, the silent-payment address codec, the Taproot        *)
(* helpers and the SilentPaymentBuilder session (createOutputs,            *)
(* scanOutputs, spendOutputs).                                              *)
(*                                                                         *)
(* Strings are sequences of character codes.  Byte buffers are sequences   *)
(* of values 0..255.  The curve is y^2 = x^3 + 7 over a small prime field  *)
(* with p = 3 (mod 4) and a group of prime order, so that the field and    *)
(* group computations of the code can be carried out exactly.              *)
(***************************************************************************)
EXTENDS Integers, Sequences, FiniteSets, TLC

VARIABLES
    probe,            \* the pure function under test: its input and its results
    session,          \* the SilentPaymentBuilder object (its fields)
    call,             \* the arguments of the operation in progress
    pc,               \* position of the caller / the scan loop
    k,                \* scanOutputs: var k
    i,                \* scanOutputs: var i
    length,           \* scanOutputs: const length of the current pass
    outputsToCheck,   \* scanOutputs: the caller's candidate array
    matches,          \* scanOutputs: the result map
    created,          \* the result map of the last createOutputs
    ret               \* the value returned (or the error thrown) by the last operation

vars == <<probe, session, call, pc, k, i, length, outputsToCheck, matches, created, ret>>

engineVars == <<session, call, pc, k, i, length, outputsToCheck, matches, created, ret>>

NoValue == [none |-> TRUE]

----------------------------------------------------------------------------
(* Generic helpers                                                         *)

\* the element of a singleton.  The({e(v) : v \in {value}}) is
\* LET v == value IN e(v) with the value computed once.
The(S) == CHOOSE r \in S : TRUE

\* 2^e for 0 <= e <= 30
Pow2(e) ==
    <<1, 2, 4, 8, 16, 32, 64, 128, 256, 512, 1024, 2048, 4096, 8192, 16384, 32768,
      65536, 131072, 262144, 524288, 1048576, 2097152, 4194304, 8388608, 16777216,
      33554432, 67108864, 134217728, 268435456, 536870912, 1073741824>>[e + 1]

\* x ^ y on 5-bit values
Xor5(a, b) ==
      ((a + b) % 2)
    + 2 * (((a \div 2) + (b \div 2)) % 2)
    + 4 * (((a \div 4) + (b \div 4)) % 2)
    + 8 * (((a \div 8) + (b \div 8)) % 2)
    + 16 * (((a \div 16) + (b \div 16)) % 2)

\* JS x ^ y on non-negative values below 2^30, five bits at a time
RECURSIVE Xor(_, _)
Xor(a, b) ==
    The({IF x = 0 THEN y
         ELSE IF y = 0 THEN x
         ELSE Xor5(x % 32, y % 32) + 32 * Xor(x \div 32, y \div 32)
         : x \in {a}, y \in {b}})

\* JS (x >> s) & m for m = 2^w - 1, on a 32-bit signed x
ShrAnd(x, s, w) == (x \div Pow2(s)) % Pow2(w)

\* JS (x << s) on a 32-bit signed x: the low 32 bits, read as a signed value
Shl32(x, s) ==
    The({
        IF (x \div Pow2(32 - s - 1)) % 2 = 1 THEN (low - 1073741824) - 1073741824
        ELSE low
        : low \in {(x % Pow2(32 - s - 1)) * Pow2(s)}})

\* JS (x | v) for v < 2^s when the low s bits of x are zero
OrLow(x, v) == x + v

SeqToSet(s) == {s[j] : j \in 1..Len(s)}

Slice(s, from, to) == [j \in 1..(IF to >= from THEN to - from + 1 ELSE 0) |-> s[from + j - 1]]

\* Array.prototype.splice(i, 1), i 0-based
Splice1(s, idx) == [j \in 1..(Len(s) - 1) |-> IF j <= idx THEN s[j] ELSE s[j + 1]]

RECURSIVE SeqsUpTo(_, _)
SeqsUpTo(S, n) ==
    IF n = 0 THEN {<<>>}
    ELSE LET shorter == SeqsUpTo(S, n - 1)
         IN  shorter \cup {Append(s, x) : s \in {t \in shorter : Len(t) = n - 1}, x \in S}

----------------------------------------------------------------------------
(* src/utils/bech32.js                                                     *)

\* "qpzry9x8gf2tvdw0s3jn54khce6mua7l"
CHARSET == <<113, 112, 122, 114, 121, 57, 120, 56, 103, 102, 50, 116, 118, 100, 119, 48,
             115, 51, 106, 110, 53, 52, 107, 104, 99, 101, 54, 109, 117, 97, 55, 108>>

GENERATOR == <<996825010, 642813549, 513874426, 1027748829, 705979059>>

\* ENCODING_CONST.bech32m
BECH32M_CONST == 734539939

\* Bech32Consts.separator, "1"
separator == 49

checksumStrLen == 6

toLowerCaseChar(c) == IF c >= 65 /\ c <= 90 THEN c + 32 ELSE c

toUpperCaseChar(c) == IF c >= 97 /\ c <= 122 THEN c - 32 ELSE c

toLowerCase(str) == [j \in 1..Len(str) |-> toLowerCaseChar(str[j])]

toUpperCase(str) == [j \in 1..Len(str) |-> toUpperCaseChar(str[j])]

\* String.prototype.lastIndexOf, 0-based, -1 when absent
lastIndexOf(str, c) ==
    LET hits == {j \in 1..Len(str) : str[j] = c}
    IN  IF hits = {} THEN -1 ELSE (CHOOSE j \in hits : \A h \in hits : h <= j) - 1

\* CHARSET.indexOf(char), 0-based
charsetIndexOf(c) == (CHOOSE j \in 1..Len(CHARSET) : CHARSET[j] = c) - 1

charsetIncludes(c) == \E j \in 1..Len(CHARSET) : CHARSET[j] = c

expandHrp(hrp) ==
    [j \in 1..(2 * Len(hrp) + 1) |->
        IF j <= Len(hrp) THEN hrp[j] \div 32
        ELSE IF j = Len(hrp) + 1 THEN 0
        ELSE hrp[j - Len(hrp) - 1] % 32]

\* the inner loop of polyMod over the five generators, from generator g on
RECURSIVE polyModGen(_, _, _)
polyModGen(chk, top, g) ==
    IF g > 5 THEN chk
    ELSE The({polyModGen(next, top, g + 1)
              : next \in {IF ShrAnd(top, g - 1, 1) = 1 THEN Xor(chk, GENERATOR[g]) ELSE chk}})

\* one iteration of the loop of polyMod
polyModStep(chk, value) ==
    The({polyModGen(next, top, 1)
         : top \in {chk \div Pow2(25)}, next \in {Xor((chk % Pow2(25)) * 32, value)}})

\* the loop of polyMod over values[lo..hi], entered with chk.  The range is
\* split in halves to keep the evaluation shallow; the iterations run in
\* order, and the singleton set binds the value left by the first half
\* before the second half starts.
RECURSIVE polyModRange(_, _, _, _)
polyModRange(values, lo, hi, chk) ==
    IF lo > hi THEN chk
    ELSE IF lo = hi THEN polyModStep(chk, values[lo])
    ELSE LET mid == (lo + hi) \div 2
         IN  CHOOSE r \in {polyModRange(values, mid + 1, hi, left) :
                              left \in {polyModRange(values, lo, mid, chk)}} : TRUE

polyMod(values) == The({polyModRange(v, 1, Len(v), 1) : v \in {values}})

\* createChecksum with the constant of Bech32 in place of that of Bech32m
createChecksumBech32(hrp, data) ==
    The({[j \in 1..6 |-> ShrAnd(polymod, 5 * (6 - j), 5)]
         : polymod \in {Xor(polyMod(expandHrp(hrp) \o data \o <<0, 0, 0, 0, 0, 0>>), 1)}})

createChecksum(hrp, data) ==
    The({[j \in 1..6 |-> ShrAnd(polymod, 5 * (6 - j), 5)]
         : polymod \in {Xor(polyMod(expandHrp(hrp) \o data \o <<0, 0, 0, 0, 0, 0>>),
                            BECH32M_CONST)}})

encodeBech32(hrp, data) ==
    The({hrp \o <<separator>> \o [j \in 1..Len(combined) |-> CHARSET[combined[j] + 1]]
         : combined \in {The({words \o createChecksum(hrp, words) : words \in {data}})}})

\* a verification that accepts every checksum
veriCheckSumSkipped(hrp, data) == TRUE

veriCheckSum(hrp, data) == polyMod(expandHrp(hrp) \o data) = BECH32M_CONST

isStringMixed(str) == str # toLowerCase(str) /\ str # toUpperCase(str)

Thrown(msg) == [ok |-> FALSE, error |-> msg]

decodeBech32(bechStr0) ==
    IF isStringMixed(bechStr0) THEN Thrown("mixed case")
    ELSE
    LET bechStr == toLowerCase(bechStr0)
        sepPos  == lastIndexOf(bechStr, separator)
    IN  IF sepPos = -1 THEN Thrown("no separator found")
        ELSE
        LET hrp      == Slice(bechStr, 1, sepPos)
            dataPart == Slice(bechStr, sepPos + 2, Len(bechStr))
        IN  IF Len(hrp) = 0 \/ \E j \in 1..Len(hrp) : hrp[j] < 33 \/ hrp[j] > 126
            THEN Thrown("HRP not valid")
            ELSE IF Len(dataPart) < checksumStrLen + 1
                    \/ \E j \in 1..Len(dataPart) : ~charsetIncludes(dataPart[j])
            THEN Thrown("data part not valid")
            ELSE
            LET intData == [j \in 1..Len(dataPart) |-> charsetIndexOf(dataPart[j])]
            IN  IF ~veriCheckSum(hrp, intData) THEN Thrown("Invalid bech32 checksum")
                ELSE [ok |-> TRUE, hrp |-> hrp,
                      data |-> Slice(intData, 1, Len(intData) - checksumStrLen)]

\* one iteration of the for loop of convertToBase32
convertToBase32Step(s, value) ==
    The({
    The({
        IF b >= 10
        THEN [accumulator |-> acc, bits |-> b - 10,
              result |-> s.result \o <<ShrAnd(acc, b - 5, 5), ShrAnd(acc, b - 10, 5)>>]
        ELSE [accumulator |-> acc, bits |-> b - 5,
              result |-> Append(s.result, ShrAnd(acc, b - 5, 5))]
        : b \in {s.bits + 8}})
        : acc \in {OrLow(Shl32(s.accumulator, 8), value)}})

RECURSIVE convertToBase32Range(_, _, _, _)
convertToBase32Range(data, lo, hi, s) ==
    IF lo > hi THEN s
    ELSE IF lo = hi THEN convertToBase32Step(s, data[lo])
    ELSE LET mid == (lo + hi) \div 2
         IN  CHOOSE r \in {convertToBase32Range(data, mid + 1, hi, left) :
                              left \in {convertToBase32Range(data, lo, mid, s)}} : TRUE

convertToBase32(data) ==
    The({
        IF s.bits > 0
        THEN Append(s.result, ShrAnd(Shl32(s.accumulator, 5 - s.bits), 0, 5))
        ELSE s.result
        : s \in {convertToBase32Range(data, 1, Len(data),
                             [accumulator |-> 0, bits |-> 0, result |-> <<>>])}})

\* one iteration of the for loop of convertFromBase32
convertFromBase32Step(s, value) ==
    The({
    The({
        IF b >= 8
        THEN [accumulator |-> acc, bits |-> b - 8,
              result |-> Append(s.result, ShrAnd(acc, b - 8, 8))]
        ELSE [accumulator |-> acc, bits |-> b, result |-> s.result]
        : b \in {s.bits + 5}})
        : acc \in {OrLow(Shl32(s.accumulator, 5), value)}})

RECURSIVE convertFromBase32Range(_, _, _, _)
convertFromBase32Range(data, lo, hi, s) ==
    IF lo > hi THEN s
    ELSE IF lo = hi THEN convertFromBase32Step(s, data[lo])
    ELSE LET mid == (lo + hi) \div 2
         IN  CHOOSE r \in {convertFromBase32Range(data, mid + 1, hi, left) :
                              left \in {convertFromBase32Range(data, lo, mid, s)}} : TRUE

convertFromBase32(data) ==
    convertFromBase32Range(data, 1, Len(data),
                           [accumulator |-> 0, bits |-> 0, result |-> <<>>]).result

----------------------------------------------------------------------------
(* The curve (elliptic's secp256k1 instance, scaled down): y^2 = x^3 + 7   *)
(* over GF(FieldP), FieldP = 3 (mod 4), with a group of prime order CurveN *)
(* generated by G.                                                         *)

\* ec.curve.p
FieldP == 79

\* ec.curve.n
CurveN == 67

\* the number of bytes of a field element (32 for secp256k1)
CoordBytes == 1

\* BN: (base ^ e) mod m by square and multiply
RECURSIVE ModPow(_, _, _)
ModPow(base, e, m) ==
    IF e = 0 THEN 1 % m
    ELSE The({
         The({
             IF e % 2 = 1 THEN (sq * (base % m)) % m ELSE sq
        : sq \in {(half * half) % m}})
        : half \in {ModPow(base, e \div 2, m)}})

ModInv(a) == ModPow(a, FieldP - 2, FieldP)

Infinity == [inf |-> TRUE, x |-> 0, y |-> 0]

Point(x, y) == [inf |-> FALSE, x |-> x, y |-> y]

\* ec.g
G == Point(1, 18)

OnCurve(P) == P.inf \/ (P.y * P.y) % FieldP = (P.x * P.x * P.x + 7) % FieldP

\* point.neg()
PointNeg(P) == IF P.inf THEN P ELSE Point(P.x, (FieldP - P.y) % FieldP)

\* point.dbl()
PointDbl(P) ==
    IF P.inf \/ P.y = 0 THEN Infinity
    ELSE The({
         The({
             Point(x3, (lam * (P.x + FieldP - x3) + (FieldP - P.y)) % FieldP)
        : x3 \in {(lam * lam + 2 * (FieldP - P.x)) % FieldP}})
        : lam \in {(3 * P.x * P.x * ModInv(2 * P.y)) % FieldP}})

\* point.add(other)
PointAdd(P, Q) ==
    IF P.inf THEN Q
    ELSE IF Q.inf THEN P
    ELSE IF P = Q THEN PointDbl(P)
    ELSE IF P.x = Q.x THEN Infinity
    ELSE The({
         The({
             Point(x3, (lam * (P.x + FieldP - x3) + (FieldP - P.y)) % FieldP)
        : x3 \in {(lam * lam + 2 * FieldP - P.x - Q.x) % FieldP}})
        : lam \in {((Q.y + FieldP - P.y) * ModInv(Q.x + FieldP - P.x)) % FieldP}})

\* point.mul(scalar), by double and add
RECURSIVE PointMul(_, _)
PointMul(P, scalar) ==
    IF scalar = 0 \/ P.inf THEN Infinity
    ELSE The({IF scalar % 2 = 1 THEN PointAdd(dbl, P) ELSE dbl
              : dbl \in {The({PointDbl(half) : half \in {PointMul(P, scalar \div 2)}})}})

\* the big-endian bytes of v on len bytes (BN.toArray("be", len))
RECURSIVE ToBytesBE(_, _)
ToBytesBE(v, len) ==
    IF len = 0 THEN <<>> ELSE Append(ToBytesBE(v \div 256, len - 1), v % 256)

\* new BN(bytes): the big-endian value of a byte array
RECURSIVE FromBytesBE(_)
FromBytesBE(bytes) ==
    IF Len(bytes) = 0 THEN 0
    ELSE 256 * FromBytesBE(Slice(bytes, 1, Len(bytes) - 1)) + bytes[Len(bytes)]

\* point.encodeCompressed(): 02/03 by the parity of y, then x
encodeCompressed(P) == <<2 + (P.y % 2)>> \o ToBytesBE(P.x, CoordBytes)

\* point.getX() as CoordBytes bytes (the x-only key)
xOnly(P) == ToBytesBE(P.x, CoordBytes)

\* the square root y = v^((p+1)/4) and the test y^2 = v
SqrtMod(v) == ModPow(v, (FieldP + 1) \div 4, FieldP)

\* ec.keyFromPublic(bytes).getPublic() on a compressed point: decodePoint
decodePoint(bytes) ==
    IF Len(bytes) # 1 + CoordBytes \/ bytes[1] \notin {2, 3} THEN Thrown("Unknown point format")
    ELSE The({
         The({
         The({
             IF (y * y) % FieldP # ySq THEN Thrown("invalid point")
             ELSE [ok |-> TRUE,
                   point |-> Point(x, IF y % 2 = bytes[1] - 2 THEN y
                                      ELSE (FieldP - y) % FieldP)]
        : y \in {SqrtMod(ySq)}})
        : ySq \in {(x * x * x + 7) % FieldP}})
        : x \in {FromBytesBE(Slice(bytes, 2, Len(bytes))) % FieldP}})

----------------------------------------------------------------------------
(* src/utils/taproot.js: P2TRUtils.liftX                                   *)

\* liftX without the choice of the even root
liftXAnyRoot(x) ==
    IF x >= FieldP THEN Thrown("Unable to compute LiftX point")
    ELSE The({IF ModPow(y, 2, FieldP) # (ModPow(x, 3, FieldP) + 7) % FieldP
              THEN Thrown("Unable to compute LiftX point")
              ELSE [ok |-> TRUE, point |-> Point(x, y)]
              : y \in {ModPow((ModPow(x, 3, FieldP) + 7) % FieldP, (FieldP + 1) \div 4, FieldP)}})

\* liftX on the x coordinate of its argument.  BN's pow(e).mod(p) is computed
\* as a modular power, which has the same value.
liftX(x) ==
    IF x >= FieldP THEN Thrown("Unable to compute LiftX point")
    ELSE The({
         The({
             IF ModPow(y, 2, FieldP) # ySq THEN Thrown("Unable to compute LiftX point")
             ELSE The({
                      [ok |-> TRUE, point |-> Point(x, result)]
        : result \in {IF y % 2 = 0 THEN y ELSE FieldP - y}})
        : y \in {ModPow(ySq, (FieldP + 1) \div 4, FieldP)}})
        : ySq \in {(ModPow(x, 3, FieldP) + 7) % FieldP}})

----------------------------------------------------------------------------
(* src/classes/KeyGeneration.js: SilentPaymentAddress                      *)

\* Network.Mainnet, Network.Testnet
Mainnet == "mainnet"

Testnet == "testnet"

\* "sp", "tsp", "sprt"
HrpSp == <<115, 112>>

HrpTsp == <<116, 115, 112>>

HrpSprt == <<115, 112, 114, 116>>

\* a constructor that gives every address the mainnet prefix
SilentPaymentAddressMainnetHrp(B_scan, B_spend, network, version) ==
    IF version # 0 THEN Thrown("Can't have other version than 0 for now")
    ELSE [ok |-> TRUE, B_scan |-> B_scan, B_spend |-> B_spend, network |-> network,
          version |-> version, hrp |-> HrpSp]

\* new SilentPaymentAddress({B_scan, B_spend, network, version})
SilentPaymentAddress(B_scan, B_spend, network, version) ==
    IF version # 0 THEN Thrown("Can't have other version than 0 for now")
    ELSE [ok |-> TRUE, B_scan |-> B_scan, B_spend |-> B_spend, network |-> network,
          version |-> version, hrp |-> IF network = Testnet THEN HrpTsp ELSE HrpSp]

\* SilentPaymentAddress.toString / toAddress
toAddress(addr) ==
    encodeBech32(addr.hrp,
                 <<addr.version>>
                 \o convertToBase32(encodeCompressed(addr.B_scan)
                                    \o encodeCompressed(addr.B_spend)))

\* SilentPaymentAddress.fromAddress
fromAddress(address) ==
    The({IF ~decoded.ok THEN decoded
         ELSE
         LET prefix == decoded.hrp
             words  == decoded.data
         IN  IF prefix # HrpSp /\ prefix # HrpSprt /\ prefix # HrpTsp
             THEN Thrown("Invalid prefix")
             ELSE IF Len(words) = 0 \/ words[1] # 0 THEN Thrown("Invalid version")
             ELSE
             The({LET scan  == decodePoint(Slice(key, 1, 1 + CoordBytes))
                      spend == decodePoint(Slice(key, 2 + CoordBytes, Len(key)))
                  IN  IF ~scan.ok THEN scan
                      ELSE IF ~spend.ok THEN spend
                      ELSE SilentPaymentAddress(scan.point, spend.point,
                                                IF prefix = HrpTsp THEN Testnet ELSE Mainnet,
                                                words[1])
                  : key \in {convertFromBase32(Slice(words, 2, Len(words)))}})
         : decoded \in {decodeBech32(address)}})

----------------------------------------------------------------------------
(* src/utils/taproot.js (utils part): hashing and key helpers              *)

\* A stand-in for SHA-256 with digests of CoordBytes bytes: a polynomial
\* fold of the input followed by a fixed permutation of the digest space.
HashSpace == CurveN

sha256Step(h, byte) == (h * 33 + byte + 1) % HashSpace

RECURSIVE sha256Range(_, _, _, _)
sha256Range(data, lo, hi, h) ==
    IF lo > hi THEN h
    ELSE IF lo = hi THEN sha256Step(h, data[lo])
    ELSE LET mid == (lo + hi) \div 2
         IN  CHOOSE r \in {sha256Range(data, mid + 1, hi, left) :
                              left \in {sha256Range(data, lo, mid, h)}} : TRUE

sha256(data) ==
    ToBytesBE(ModPow(sha256Range(data, 1, Len(data), 1), 5, HashSpace), CoordBytes)

\* "BIP0352/Inputs"
TagInputs == <<66, 73, 80, 48, 51, 53, 50, 47, 73, 110, 112, 117, 116, 115>>

\* "BIP0352/SharedSecret"
TagSharedSecret == <<66, 73, 80, 48, 51, 53, 50, 47, 83, 104, 97, 114, 101, 100,
                     83, 101, 99, 114, 101, 116>>

\* taggedHash(data, tag): the second declaration of the file is the one in force
taggedHash(data, tag) ==
    The({sha256(tagDigest \o tagDigest \o data) : tagDigest \in {sha256(tag)}})

\* toBytes(BigInt(k), 4)
toBytes(v, len) == ToBytesBE(v, len)

\* tweakAddPrivate(key, tweak): the private scalar of the result
tweakAddPrivate(key, tweak) == (key + tweak) % CurveN

\* tweakMulPrivate(key, tweak)
tweakMulPrivate(key, tweak) == (key * (tweak % CurveN)) % CurveN

\* tweakAddPublic(key, tweak) == key.add(ec.g.mul(tweak))
tweakAddPublic(key, tweak) == PointAdd(key, PointMul(G, tweak % CurveN))

\* tweakMulPublic(key, tweak) == key.mul(tweak)
tweakMulPublic(key, tweak) == PointMul(key, tweak % CurveN)

\* negate(key)
negate(key) == (CurveN - key) % CurveN

\* toTweakedTaprootKey(key): calculateTweek reads this.taggedHash in a plain
\* function call, where this has no such member
toTweakedTaprootKey(key) == Thrown("TypeError: this.taggedHash is not a function")

----------------------------------------------------------------------------
(* src/utils/taproot.js: toTaprootAddress                                  *)

\* TAPROOT_WITNESS_VERSION
TAPROOT_WITNESS_VERSION == 1

\* "bc", "tb"
HrpBc == <<98, 99>>

HrpTb == <<116, 98>>

\* scripts = null, the default of toTaprootAddress
NoScript == <<-1>>

\* P2TRUtils.calculateTweak(pubPoint, {script})
calculateTweak(pubPoint, script) ==
    LET t == xOnly(pubPoint)
    IN  IF script = NoScript THEN t ELSE sha256(t \o script)

\* P2TRUtils.tweakPublicKey(pubPoint, {script})
tweakPublicKey(pubPoint, script) ==
    LET h == calculateTweak(pubPoint, script)
        n == PointMul(G, FromBytesBE(h) % CurveN)
    IN  The({IF ~lifted.ok THEN lifted
             ELSE [ok |-> TRUE, point |-> PointAdd(lifted.point, n)]
             : lifted \in {liftX(pubPoint.x)}})

\* toTapRotHex(pubKey, {script, tweak}): the x coordinate, as bytes
toTapRotHex(pubKey, script, tweak) ==
    IF pubKey.inf THEN Thrown("TypeError: point at infinity has no coordinates")
    ELSE IF tweak
    THEN The({
             IF ~tweaked.ok THEN tweaked
             ELSE IF tweaked.point.inf
             THEN Thrown("TypeError: point at infinity has no coordinates")
             ELSE [ok |-> TRUE, hex |-> xOnly(tweaked.point)]
        : tweaked \in {tweakPublicKey(pubKey, script)}})
    ELSE [ok |-> TRUE, hex |-> xOnly(pubKey)]

\* toTaprootAddress(publicKey, network, {scripts, tweak})
toTaprootAddress(publicKey, network, script, tweak) ==
    The({IF ~pubKey.ok THEN pubKey
         ELSE LET words == <<TAPROOT_WITNESS_VERSION>> \o convertToBase32(pubKey.hex)
                  hrp   == IF network = Testnet THEN HrpTb ELSE HrpBc
              IN  [ok |-> TRUE, address |-> encodeBech32(hrp, words), pubkey |-> pubKey.hex]
         : pubKey \in {toTapRotHex(publicKey, script, tweak)}})

----------------------------------------------------------------------------
(* src/unnamed/part_000: SilentPaymentBuilder                              *)

\* null or undefined where a byte string may stand, and where a list may stand
Null == <<-1>>
NullList == <<Null>>

\* the number of bytes of a transaction id (32 on chain)
TxidBytes == 2

Reverse(s) == [j \in 1..Len(s) |-> s[Len(s) + 1 - j]]

\* Buffer.writeUInt32LE
ToBytesLE(v, len) == Reverse(ToBytesBE(v, len))

\* the serialized outpoint of _getInputHash: reversed txid, little-endian index
serializeOutpoint(outpoint) == Reverse(outpoint.txid) \o ToBytesLE(outpoint.index, 4)

\* Buffer.compare(a, b) < 0
RECURSIVE BufferLess(_, _)
BufferLess(a, b) ==
    IF Len(b) = 0 THEN FALSE
    ELSE IF Len(a) = 0 THEN TRUE
    ELSE IF a[1] # b[1] THEN a[1] < b[1]
    ELSE BufferLess(Tail(a), Tail(b))

\* Array.prototype.sort(Buffer.compare), by insertion
insertBuffer(sorted, b) ==
    The({Slice(sorted, 1, at) \o <<b>> \o Slice(sorted, at + 1, Len(sorted))
         : at \in {Cardinality({j \in 1..Len(sorted) : ~BufferLess(b, sorted[j])})}})

RECURSIVE sortBuffers(_)
sortBuffers(bufs) ==
    IF Len(bufs) <= 1 THEN bufs
    ELSE The({insertBuffer(sorted, bufs[Len(bufs)])
              : sorted \in {sortBuffers(Slice(bufs, 1, Len(bufs) - 1))}})

\* the first mapped outpoint, the array left as map returned it
lowestOutpointUnsorted(vinOutpoints) == serializeOutpoint(vinOutpoints[1])

\* sortedOutpoints = vinOutpoints.map(...); sortedOutpoints.sort(Buffer.compare);
\* sortedOutpoints[0]
lowestOutpoint(vinOutpoints) ==
    sortBuffers([j \in 1..Len(vinOutpoints) |-> serializeOutpoint(vinOutpoints[j])])[1]

\* tail.reduce((acc, item) => acc.add(item), head) over decoded points
RECURSIVE sumPoints(_)
sumPoints(points) ==
    IF Len(points) = 1 THEN points[1]
    ELSE The({PointAdd(acc, points[Len(points)])
              : acc \in {sumPoints(Slice(points, 1, Len(points) - 1))}})

\* _getAsum: the sum of the public keys, compressed
getAsum(pubkeys) ==
    IF Len(pubkeys) = 0 THEN [ok |-> TRUE, A_sum |-> Null]
    ELSE IF Len(pubkeys) = 1 THEN [ok |-> TRUE, A_sum |-> pubkeys[1]]
    ELSE The({
             IF \E j \in 1..Len(pubkeys) : ~decoded[j].ok THEN Thrown("invalid public key")
             ELSE The({
                      IF sum.inf THEN Thrown("TypeError: point at infinity has no coordinates")
                      ELSE [ok |-> TRUE, A_sum |-> encodeCompressed(sum)]
        : sum \in {sumPoints([j \in 1..Len(pubkeys) |-> decoded[j].point])}})
        : decoded \in {[j \in 1..Len(pubkeys) |-> decodePoint(pubkeys[j])]}})

\* _getInputHash, from this.vinOutpoints and this.A_sum
getInputHash(vinOutpoints, A_sum) ==
    IF Len(vinOutpoints) = 0 THEN Thrown("TypeError: list[0] is undefined")
    ELSE IF A_sum = Null THEN Thrown("TypeError: first argument must be a string")
    ELSE [ok |-> TRUE,
          inputHash |-> taggedHash(lowestOutpoint(vinOutpoints) \o A_sum, TagInputs)]

\* the fields of a session after the assignments of the constructor
NewSession(vinOutpoints, pubkeys, network, receiverTweak) ==
    [vinOutpoints |-> vinOutpoints, pubkeys |-> pubkeys, receiverTweak |-> receiverTweak,
     network |-> network, A_sum |-> Null, inputHash |-> Null]

\* constructor({vinOutpoints, pubkeys, network, receiverTweak})
constructor(vinOutpoints, pubkeys, network, receiverTweak) ==
    LET this == NewSession(vinOutpoints, pubkeys, network, receiverTweak)
    IN  IF receiverTweak = Null /\ pubkeys # NullList
        THEN The({IF ~asum.ok THEN asum
                  ELSE The({IF ~hash.ok THEN hash
                            ELSE [ok |-> TRUE,
                                  this |-> [this EXCEPT !.A_sum = asum.A_sum,
                                                        !.inputHash = hash.inputHash]]
                            : hash \in {getInputHash(vinOutpoints, asum.A_sum)}})
                  : asum \in {getAsum(pubkeys)}})
        ELSE [ok |-> TRUE, this |-> this]

\* new ECPrivateInfo(privkey, isTaproot, tweak)
ECPrivateInfo(privkey, isTaproot, tweak) ==
    [privkey |-> privkey, isTaproot |-> isTaproot, tweak |-> tweak]

\* new SilentPaymentDestination({version, scanPubkey, spendPubkey, network, amount})
SilentPaymentDestination(scanPubkey, spendPubkey, network, amount) ==
    [B_scan |-> scanPubkey, B_spend |-> spendPubkey, network |-> network, version |-> 0,
     hrp |-> IF network = Testnet THEN HrpTsp ELSE HrpSp, amount |-> amount]

\* the property key that an object (here an elliptic point, which defines no
\* toString) becomes in silentPaymentGroups[scanPubkey]
objectKey(obj) == "[object Object]"

\* the key of one input after the body of the first loop of createOutputs
inputKey(info) ==
    IF info.isTaproot /\ info.tweak THEN toTweakedTaprootKey(info.privkey)
    ELSE IF info.isTaproot /\ PointMul(G, info.privkey).y % 2 = 1
    THEN [ok |-> TRUE, key |-> negate(info.privkey)]
    ELSE [ok |-> TRUE, key |-> info.privkey]

\* a_sum after the first loop of createOutputs
RECURSIVE sumInputKeys(_)
sumInputKeys(inputPrivKeyInfos) ==
    IF Len(inputPrivKeyInfos) = 0 THEN Thrown("TypeError: cannot read properties of null")
    ELSE
    The({IF Len(inputPrivKeyInfos) = 1
         THEN IF last.ok THEN [ok |-> TRUE, a_sum |-> last.key] ELSE last
         ELSE The({IF ~prev.ok THEN prev
                   ELSE IF ~last.ok THEN last
                   ELSE [ok |-> TRUE, a_sum |-> tweakAddPrivate(prev.a_sum, last.key)]
                   : prev \in {sumInputKeys(Slice(inputPrivKeyInfos, 1,
                                                  Len(inputPrivKeyInfos) - 1))}})
         : last \in {inputKey(inputPrivKeyInfos[Len(inputPrivKeyInfos)])}})

\* the group of one destination that opens a group: the else branch of the
\* second loop of createOutputs
newGroup(a_sum, inputHash, silentPaymentDestination) ==
    The({IF ecdhSharedSecret.inf
         THEN Thrown("TypeError: point at infinity has no coordinates")
         ELSE [ok |-> TRUE,
               group |-> [key |-> objectKey(silentPaymentDestination.B_scan),
                          ecdhSharedSecret |-> encodeCompressed(ecdhSharedSecret),
                          recipients |-> <<silentPaymentDestination>>]]
         : ecdhSharedSecret \in
             {tweakMulPublic(silentPaymentDestination.B_scan,
                             tweakMulPrivate(a_sum, FromBytesBE(inputHash)))}})

\* silentPaymentGroups after the second loop of createOutputs: a list of
\* groups in insertion order, each with its key, its secret and its recipients
RECURSIVE groupDestinations(_, _, _)
groupDestinations(a_sum, inputHash, silentPaymentDestinations) ==
    IF Len(silentPaymentDestinations) = 0 THEN [ok |-> TRUE, groups |-> <<>>]
    ELSE
    The({LET dest       == silentPaymentDestinations[Len(silentPaymentDestinations)]
             scanPubkey == objectKey(dest.B_scan)
             at         == {g \in 1..Len(prev.groups) : prev.groups[g].key = scanPubkey}
         IN  IF ~prev.ok THEN prev
             ELSE IF at # {}
             THEN [ok |-> TRUE,
                   groups |-> [prev.groups EXCEPT
                                  ![CHOOSE g \in at : TRUE].recipients = Append(@, dest)]]
             ELSE The({IF ~new.ok THEN new
                       ELSE [ok |-> TRUE, groups |-> Append(prev.groups, new.group)]
                       : new \in {newGroup(a_sum, inputHash, dest)}})
         : prev \in {groupDestinations(a_sum, inputHash,
                                       Slice(silentPaymentDestinations, 1,
                                             Len(silentPaymentDestinations) - 1))}})

\* t_k of createOutputs and scanOutputs
sharedSecretTweak(ecdhSharedSecret, k_) ==
    taggedHash(ecdhSharedSecret \o toBytes(k_, 4), TagSharedSecret)

\* the outputs of one group, in the order of its recipients (the inner loop)
groupOutputs(group, network) ==
    [j \in 1..Len(group.recipients) |->
        LET destination == group.recipients[j]
            t_k  == sharedSecretTweak(group.ecdhSharedSecret, j - 1)
            P_mn == tweakAddPublic(destination.B_spend, FromBytesBE(t_k))
        IN  [key |-> toAddress(destination), destination |-> destination,
             address |-> toTaprootAddress(P_mn, network, NoScript, FALSE),
             amount |-> destination.amount]]

\* P2trAddress.saveTaproot({address, pubkey})
P2trAddress(address, pubkey) == [address |-> address, pubkey |-> pubkey]

RECURSIVE Flatten(_)
Flatten(seqs) == IF Len(seqs) = 0 THEN <<>> ELSE Flatten(Slice(seqs, 1, Len(seqs) - 1)) \o seqs[Len(seqs)]

SelectOutputs(produced, key) ==
    The({
        [j \in 1..Len(sel) |->
            [address |-> P2trAddress(sel[j].address.address, sel[j].address.pubkey),
             amount |-> sel[j].amount]]
        : sel \in {SelectSeq(produced, LAMBDA o : o.key = key)}})

\* the result map of createOutputs from the outputs in the order of their creation
resultMap(produced) ==
    [key \in {produced[j].key : j \in 1..Len(produced)} |-> SelectOutputs(produced, key)]

\* createOutputs(inputPrivKeyInfos, silentPaymentDestinations) on the session this:
\* the session as the call leaves it, and the result map or the error thrown
createOutputs(this, inputPrivKeyInfos, silentPaymentDestinations) ==
    The({
    IF ~sum.ok THEN [ok |-> FALSE, error |-> sum.error, this |-> this]
    ELSE IF sum.a_sum = 0
    THEN [ok |-> FALSE, error |-> "TypeError: point at infinity has no coordinates",
          this |-> this]
    ELSE
    The({
    LET this1 == [this EXCEPT !.A_sum = A_sum] IN
    The({
    IF ~hash.ok THEN [ok |-> FALSE, error |-> hash.error, this |-> this1]
    ELSE
    LET this2   == [this1 EXCEPT !.inputHash = hash.inputHash]
        n       == Len(silentPaymentDestinations)
        network == IF n = 0 THEN "undefined" ELSE silentPaymentDestinations[n].network
    IN
    The({
    IF ~grouped.ok THEN [ok |-> FALSE, error |-> grouped.error, this |-> this2]
    ELSE
    The({
    IF \E j \in 1..Len(produced) : ~produced[j].address.ok
    THEN [ok |-> FALSE, error |-> "TypeError: point at infinity has no coordinates",
          this |-> this2]
    ELSE [ok |-> TRUE, this |-> this2, result |-> resultMap(produced)]
    : produced \in {Flatten([g \in 1..Len(grouped.groups) |->
                                groupOutputs(grouped.groups[g], network)])}})
    : grouped \in {groupDestinations(sum.a_sum, hash.inputHash, silentPaymentDestinations)}})
    : hash \in {getInputHash(this.vinOutpoints, A_sum)}})
    : A_sum \in {encodeCompressed(PointMul(G, sum.a_sum))}})
    : sum \in {sumInputKeys(inputPrivKeyInfos)}})

\* isNotEmpty as a test of one or more elements or entries
isNotEmptyByCount(obj) == DOMAIN obj # {}

\* isNotEmpty as a value that is always truthy
isNotEmptyTruthy(obj) == TRUE

\* the property isNotEmpty of an array or of an object literal: undefined
isNotEmpty(obj) == FALSE

\* new BitcoinScriptOutput(script, value) of a pay-to-taproot output: the
\* script is 51 20 followed by the x-only key
BitcoinScriptOutput(key, value) == [script |-> <<81, 32>> \o key, value |-> value]

\* script.slice(4) on the hex string of the script: two bytes dropped
scriptSlice4(script) == Slice(script, 3, Len(script))

\* an assignment that files the match under its tweak
recordMatchByTweak(map, outputPubkey, scanningOutput) ==
    (scanningOutput.tweak :> scanningOutput) @@ map

\* matches[outputPubkey] = scanningOutput
recordMatch(map, outputPubkey, scanningOutput) == (outputPubkey :> scanningOutput) @@ map

\* new SilentPaymentScanningOutput({output: new SilentPaymentOutput(address, amount), tweak})
SilentPaymentScanningOutput(address, amount, tweak) ==
    [output |-> [address |-> address, amount |-> amount], tweak |-> tweak]

\* "BIP0352/Label"
TagLabel == <<66, 73, 80, 48, 51, 53, 50, 47, 76, 97, 98, 101, 108>>

\* generateLabel(m, b_scan)
generateLabel(m, b_scan) ==
    FromBytesBE(taggedHash(ToBytesBE(b_scan, CoordBytes) \o toBytes(m, 4), TagLabel)) % CurveN

\* the label branch of scanOutputs for one candidate: the x-only key is given
\* to ec.keyFromPublic, and pubNegate hands a key pair to tweakAddPublic
labelBranch(output, P_k, precomputedLabels) ==
    IF ~decodePoint(output).ok THEN Thrown("Error: Unknown point format")
    ELSE Thrown("Error: Assertion failed")

\* the head of scanOutputs: tweakDataForRecipient and ecdhSharedSecret
scanSharedSecret(this, b_scan) ==
    IF this.receiverTweak # Null
    THEN The({
             IF ~T.ok THEN T ELSE [ok |-> TRUE, point |-> tweakMulPublic(T.point, b_scan)]
        : T \in {decodePoint(this.receiverTweak)}})
    ELSE IF this.A_sum = Null THEN Thrown("TypeError: first argument must be a string")
    ELSE The({
             IF ~A.ok THEN A
             ELSE [ok |-> TRUE,
                   point |-> tweakMulPublic(tweakMulPublic(A.point, FromBytesBE(this.inputHash)),
                                            b_scan)]
        : A \in {decodePoint(this.A_sum)}})

\* P_k of scanOutputs
scanOutputKey(ecdhSharedSecret, B_spend, k_) ==
    tweakAddPublic(B_spend,
                   FromBytesBE(sharedSecretTweak(encodeCompressed(ecdhSharedSecret), k_)))

\* spendOutputs(b_scan, b_spend) on the session this
spendOutputs(this, b_scan, b_spend) ==
    IF this.receiverTweak # Null
    THEN [ok |-> TRUE, p_k |-> tweakAddPrivate(b_spend, FromBytesBE(this.receiverTweak))]
    ELSE The({
             IF ~secret.ok THEN secret
             ELSE IF secret.point.inf
             THEN Thrown("TypeError: point at infinity has no coordinates")
             ELSE [ok |-> TRUE,
                   p_k |-> tweakAddPrivate(b_spend,
                              FromBytesBE(sharedSecretTweak(encodeCompressed(secret.point), 0)))]
        : secret \in {scanSharedSecret(this, b_scan)}})

----------------------------------------------------------------------------
(* The session state machine: one transaction is created by a sender, a     *)
(* receiver builds a session from its public data, scans and spends         *)

\* ---- bounds and inputs ----
MaxDests == 2
MaxCandidates == 3

Outpoints == << [txid |-> <<1, 2>>, index |-> 0], [txid |-> <<2, 1>>, index |-> 1] >>

\* the receivers' private keys b_scan and b_spend
Receivers == {"R1", "R2"}
ScanKey(r) == IF r = "R1" THEN 7 ELSE 13
SpendKey(r) == IF r = "R1" THEN 11 ELSE 17

LabelIndex == 1

\* the label table of a receiver: compressed m*G to m, or the empty table
LabelTable(r) ==
    LET m == generateLabel(LabelIndex, ScanKey(r))
    IN  [key \in {encodeCompressed(PointMul(G, m))} |-> m]

\* the addresses a sender can pay: a receiver's plain address, or its address
\* under the label LabelIndex (B_spend + m*G)
Payees == {[receiver |-> "R1", labelled |-> FALSE], [receiver |-> "R1", labelled |-> TRUE],
           [receiver |-> "R2", labelled |-> FALSE]}

PayeeSpendPoint(payee) ==
    LET B_spend == PointMul(G, SpendKey(payee.receiver))
    IN  IF payee.labelled
        THEN tweakAddPublic(B_spend, generateLabel(LabelIndex, ScanKey(payee.receiver)))
        ELSE B_spend

\* the destinations of a list of payees; the amounts tell the positions apart
Destinations(payees) ==
    [j \in 1..Len(payees) |->
        SilentPaymentDestination(PointMul(G, ScanKey(payees[j].receiver)),
                                 PayeeSpendPoint(payees[j]), Mainnet, 1000 * j)]

InputLists == {<<ECPrivateInfo(3, FALSE, FALSE)>>,
               <<ECPrivateInfo(3, FALSE, FALSE), ECPrivateInfo(5, TRUE, FALSE)>>,
               <<ECPrivateInfo(5, TRUE, TRUE)>>}

\* the public key a verifier reads from the input spent by info
inputPubkey(info) ==
    LET P == PointMul(G, info.privkey)
    IN  IF info.isTaproot THEN encodeCompressed(liftX(P.x).point) ELSE encodeCompressed(P)

\* an output of the transaction that no sender derived from a silent-payment address
Decoys == {BitcoinScriptOutput(<<200>>, 7)}

\* the outputs of the created transaction, as a scanner sees them
CreatedOutputs ==
    IF created = NoValue \/ ~created.out.ok THEN {}
    ELSE {BitcoinScriptOutput(o.address.pubkey, o.amount) :
             o \in UNION {SeqToSet(created.out.result[key]) : key \in DOMAIN created.out.result}}

CandidateLists ==
    {c \in SeqsUpTo(CreatedOutputs \cup Decoys, MaxCandidates) :
        Cardinality(SeqToSet(c)) = Len(c)}

\* ---- actions ----
Init ==
    /\ probe = NoValue
    /\ session = NoValue /\ call = NoValue /\ pc = "idle"
    /\ k = 0 /\ i = 0 /\ length = 0 /\ outputsToCheck = <<>> /\ matches = <<>>
    /\ created = NoValue /\ ret = NoValue

\* the operation that returned last
RetOp == IF ret = NoValue THEN "none" ELSE ret.op

scanVars == <<call, pc, k, i, length, outputsToCheck, matches>>

\* a sender builds a session from the outpoints alone and calls createOutputs
CreateOutputs ==
    /\ created = NoValue /\ pc = "idle"
    /\ \E infos \in InputLists, payees \in SeqsUpTo(Payees, MaxDests) \ {<<>>} :
          LET sender == constructor(Outpoints, NullList, Mainnet, Null).this
          IN  created' = [infos |-> infos, payees |-> payees,
                          out |-> createOutputs(sender, infos, Destinations(payees))]
    /\ UNCHANGED <<probe, session, ret>> /\ UNCHANGED scanVars

\* a receiver builds a session from the public keys and outpoints of the
\* transaction, or from the tweak that a scan recorded
Construct ==
    /\ created # NoValue /\ created.out.ok /\ pc = "idle"
    /\ \/ /\ session = NoValue
          /\ LET pubkeys == [j \in 1..Len(created.infos) |-> inputPubkey(created.infos[j])]
             IN  session' = constructor(Outpoints, pubkeys, Mainnet, Null).this
       \/ /\ session # NoValue /\ session.receiverTweak = Null
          /\ RetOp = "scanOutputs" /\ ret.ok
          /\ \E key \in DOMAIN ret.value :
                session' = constructor(Outpoints, NullList, Mainnet, ret.value[key].tweak).this
    /\ UNCHANGED <<probe, created, ret>> /\ UNCHANGED scanVars

\* scanOutputs(b_scan, B_spend, outputsToCheck, precomputedLabels) up to the do
ScanBegin ==
    /\ session # NoValue /\ pc = "idle" /\ ret = NoValue
    /\ \E r \in Receivers :
          \E secret \in {scanSharedSecret(session, ScanKey(r))},
             candidates \in CandidateLists, labelled \in BOOLEAN :
              /\ call' = [receiver |-> r, b_scan |-> ScanKey(r),
                          B_spend |-> PointMul(G, SpendKey(r)),
                          candidates |-> candidates,
                          precomputedLabels |-> IF labelled THEN LabelTable(r) ELSE <<>>,
                          ecdhSharedSecret |-> IF secret.ok THEN secret.point ELSE Infinity]
              /\ outputsToCheck' = candidates
              /\ matches' = <<>> /\ k' = 0 /\ i' = 0 /\ length' = 0
              /\ IF secret.ok
                 THEN pc' = "do" /\ ret' = ret
                 ELSE pc' = "idle" /\ ret' = [op |-> "scanOutputs", ok |-> FALSE,
                                              error |-> secret.error]
    /\ UNCHANGED <<probe, session, created>>

\* the body of the do loop before the for: t_k, P_k, length, i = 0
ScanDo ==
    /\ pc = "do"
    /\ IF call.ecdhSharedSecret.inf
       THEN /\ pc' = "idle"
            /\ ret' = [op |-> "scanOutputs", ok |-> FALSE,
                       error |-> "TypeError: point at infinity has no coordinates"]
            /\ UNCHANGED <<length, i>>
       ELSE /\ length' = Len(outputsToCheck)
            /\ i' = 0
            /\ pc' = IF 0 < Len(outputsToCheck) THEN "for" ELSE "while"
            /\ ret' = ret
    /\ UNCHANGED <<probe, session, created, call, k, outputsToCheck, matches>>

\* one turn of the for loop on outputsToCheck[i], with the i++ and the test
ScanFor ==
    /\ pc = "for"
    /\ \E t_k \in {sharedSecretTweak(encodeCompressed(call.ecdhSharedSecret), k)},
          output \in {scriptSlice4(outputsToCheck[i + 1].script)},
          outputAmount \in {outputsToCheck[i + 1].value},
          spliced \in {Splice1(outputsToCheck, i)} :
       \E P_k \in {tweakAddPublic(call.B_spend, FromBytesBE(t_k))} :
           IF P_k.inf
           THEN /\ pc' = "idle"
                /\ ret' = [op |-> "scanOutputs", ok |-> FALSE,
                           error |-> "TypeError: point at infinity has no coordinates"]
                /\ UNCHANGED <<k, i, outputsToCheck, matches>>
           ELSE IF output = xOnly(P_k)
           THEN /\ matches' = recordMatch(matches, output,
                                  SilentPaymentScanningOutput(
                                      P2trAddress(toTaprootAddress(P_k, session.network, NoScript,
                                                                   FALSE).address, xOnly(P_k)),
                                      outputAmount, t_k))
                /\ outputsToCheck' = spliced
                /\ k' = k + 1
                /\ pc' = "while"
                /\ UNCHANGED <<i, ret>>
           ELSE IF isNotEmpty(call.precomputedLabels)   \* a table is always passed: != null holds
           THEN /\ pc' = "idle"
                /\ ret' = [op |-> "scanOutputs", ok |-> FALSE,
                           error |-> labelBranch(output, P_k, call.precomputedLabels).error]
                /\ UNCHANGED <<k, i, outputsToCheck, matches>>
           ELSE /\ outputsToCheck' = spliced
                /\ IF i + 1 >= Len(spliced)
                   THEN pc' = "while" /\ i' = i
                   ELSE i' = i + 1 /\ pc' = IF i + 1 < length THEN "for" ELSE "while"
                /\ UNCHANGED <<k, matches, ret>>
    /\ UNCHANGED <<probe, session, created, call, length>>

\* the test of the do/while, and the return
ScanWhile ==
    /\ pc = "while"
    /\ IF isNotEmpty(outputsToCheck)
       THEN pc' = "do" /\ ret' = ret
       ELSE pc' = "idle" /\ ret' = [op |-> "scanOutputs", ok |-> TRUE, value |-> matches]
    /\ UNCHANGED <<probe, session, created, call, k, i, length, outputsToCheck, matches>>

\* spendOutputs(b_scan, b_spend) by a receiver
SpendOutputs ==
    /\ session # NoValue /\ pc = "idle"
    /\ RetOp \in {"none", "scanOutputs"}
    /\ \E r \in Receivers :
          \E spent \in {spendOutputs(session, ScanKey(r), SpendKey(r))} :
              ret' = IF spent.ok
                     THEN [op |-> "spendOutputs", ok |-> TRUE, receiver |-> r,
                           value |-> spent.p_k]
                     ELSE [op |-> "spendOutputs", ok |-> FALSE, error |-> spent.error]
    /\ UNCHANGED <<probe, session, created>> /\ UNCHANGED scanVars

Next == CreateOutputs \/ Construct \/ ScanBegin \/ ScanDo \/ ScanFor \/ ScanWhile \/ SpendOutputs

Spec == Init /\ [][Next]_vars

\* the scan is one call: once begun, its steps are taken
SpecLive == Spec /\ WF_vars(ScanDo) /\ WF_vars(ScanFor) /\ WF_vars(ScanWhile)

----------------------------------------------------------------------------
(* Specifications of the pure functions: the input is drawn in Init and   *)
(* the actions apply the functions to it.  The session is not used.       *)

EngineUnused ==
    /\ session = NoValue /\ call = NoValue /\ pc = "unused" /\ k = 0 /\ i = 0 /\ length = 0
    /\ outputsToCheck = <<>> /\ matches = <<>> /\ created = NoValue /\ ret = NoValue

\* ---- Bech32m codec ----

MaxDataLen == 3

\* 5-bit values used as data; "289" is <<10, 7, 5>>
DataVals == {5, 7, 10}

\* "c", "sp", "a1", "C", "Sp", "~"
HrpSet == {<<99>>, <<115, 112>>, <<97, 49>>, <<67>>, <<83, 112>>, <<126>>}

\* characters tried in a substitution: "C", "c", "q", "Q", "1", "2", "!"
SubChars == {67, 99, 113, 81, 49, 50, 33}

BechInit ==
    /\ probe \in [fn : {"bech32"}, hrp : HrpSet, data : SeqsUpTo(DataVals, MaxDataLen),
                  stage : {"input"}, upper : {FALSE}, encoded : {<<>>}, decoded : {NoValue},
                  pos : {0}, ch : {0}, mutated : {<<>>}, decodedMut : {NoValue}]
    /\ EngineUnused

BechEncode ==
    /\ probe.stage = "input"
    /\ probe' = [probe EXCEPT !.stage = "encoded", !.encoded = encodeBech32(probe.hrp, probe.data)]
    /\ UNCHANGED engineVars

\* the caller upper-cases the whole string before handing it to the decoder
BechUpper ==
    /\ probe.stage = "encoded" /\ ~probe.upper
    /\ probe' = [probe EXCEPT !.upper = TRUE, !.encoded = toUpperCase(probe.encoded)]
    /\ UNCHANGED engineVars

BechDecode ==
    /\ probe.stage = "encoded"
    /\ probe' = [probe EXCEPT !.stage = "decoded", !.decoded = decodeBech32(probe.encoded)]
    /\ UNCHANGED engineVars

BechSubstitute ==
    /\ probe.stage = "decoded" /\ probe.decoded.ok
    /\ \E pos \in 1..Len(probe.encoded), c \in SubChars :
          /\ c # probe.encoded[pos]
          /\ LET mutated == [probe.encoded EXCEPT ![pos] = c]
             IN  probe' = [probe EXCEPT !.stage = "substituted", !.pos = pos, !.ch = c,
                                        !.mutated = mutated,
                                        !.decodedMut = decodeBech32(mutated)]
    /\ UNCHANGED engineVars

BechNext == BechEncode \/ BechUpper \/ BechDecode \/ BechSubstitute

SpecBech == BechInit /\ [][BechNext]_vars

\* ---- silent-payment address codec ----

\* private keys of the spend points of the addresses under test
AddrSpendKeys == {2, 9, 40}

AddrInit ==
    /\ \E a \in 1..(CurveN - 1), b \in AddrSpendKeys, net \in {Mainnet, Testnet} :
          probe = [fn |-> "address",
                   addr |-> SilentPaymentAddress(PointMul(G, a), PointMul(G, b), net, 0),
                   stage |-> "input", text |-> <<>>, parsed |-> NoValue]
    /\ EngineUnused

AddrToAddress ==
    /\ probe.stage = "input"
    /\ probe' = [probe EXCEPT !.stage = "encoded", !.text = toAddress(probe.addr)]
    /\ UNCHANGED engineVars

AddrFromAddress ==
    /\ probe.stage = "encoded"
    /\ probe' = [probe EXCEPT !.stage = "parsed", !.parsed = fromAddress(probe.text)]
    /\ UNCHANGED engineVars

AddrNext == AddrToAddress \/ AddrFromAddress

SpecAddr == AddrInit /\ [][AddrNext]_vars

\* ---- liftX ----

\* how far above the field prime the x values under test reach
LiftOver == 4

LiftInit ==
    /\ probe \in [fn : {"liftX"}, x : 0..(FieldP + LiftOver), stage : {"input"}, out : {NoValue}]
    /\ EngineUnused

LiftApply ==
    /\ probe.stage = "input"
    /\ probe' = [probe EXCEPT !.stage = "lifted", !.out = liftX(probe.x)]
    /\ UNCHANGED engineVars

LiftNext == LiftApply

SpecLift == LiftInit /\ [][LiftNext]_vars

\* ---- toTaprootAddress on its own ----

\* "TapLeaf"
TagTapLeaf == <<84, 97, 112, 76, 101, 97, 102>>

\* encodeVarint(i), for the lengths below 253
encodeVarint(n) == <<n>>

\* prependVarint(data)
prependVarint(data) == encodeVarint(Len(data)) \o data

\* _tapleafTaggedHash(script)
tapleafTaggedHash(script) == taggedHash(<<192>> \o prependVarint(script), TagTapLeaf)

\* the points of the curve other than the point at infinity
CurvePoints == {P \in {Point(x, y) : x \in 0..(FieldP - 1), y \in 0..(FieldP - 1)} : OnCurve(P)}

\* a script tree of the single leaf OP_TRUE
TapLeafScript == <<81>>

TapInit ==
    /\ \E withScript \in BOOLEAN :
          probe \in [fn : {"toTaprootAddress"}, point : CurvePoints,
                     network : {Mainnet, Testnet},
                     script : {IF withScript THEN TapLeafScript ELSE NoScript},
                     tweak : BOOLEAN, stage : {"input"}, out : {NoValue}]
    /\ EngineUnused

TapApply ==
    /\ probe.stage = "input"
    /\ probe' = [probe EXCEPT !.stage = "encoded",
                              !.out = toTaprootAddress(probe.point, probe.network,
                                                       probe.script, probe.tweak)]
    /\ UNCHANGED engineVars

TapNext == TapApply

SpecTap == TapInit /\ [][TapNext]_vars

\* ---- the session and its derived fields ----

\* the number of calls made on one session
MaxSessCalls == 2

\* the outpoints of the transaction; the second has the lowest serialization
SessOutpoints == {[txid |-> <<1, 2>>, index |-> 0], [txid |-> <<2, 1>>, index |-> 1],
                  [txid |-> <<1, 2>>, index |-> 1]}

\* every order of the outpoints, and the empty list
SessOutpointLists ==
    {l \in SeqsUpTo(SessOutpoints, Cardinality(SessOutpoints)) :
        Len(l) = 0 \/ SeqToSet(l) = SessOutpoints}

\* no public keys, the keys of one and of two inputs, and a list with a string
\* that is no encoding of a point
SessPubkeyLists ==
    {NullList,
     <<inputPubkey(ECPrivateInfo(3, FALSE, FALSE))>>,
     <<inputPubkey(ECPrivateInfo(3, FALSE, FALSE)), inputPubkey(ECPrivateInfo(5, TRUE, FALSE))>>,
     <<inputPubkey(ECPrivateInfo(3, FALSE, FALSE)), <<4, 1>>>>}

\* destination lists with the networks of their addresses
SessPayeeLists ==
    {<<[receiver |-> "R1", network |-> Mainnet]>>,
     <<[receiver |-> "R1", network |-> Testnet], [receiver |-> "R2", network |-> Mainnet]>>,
     <<[receiver |-> "R2", network |-> Mainnet], [receiver |-> "R1", network |-> Testnet]>>,
     <<[receiver |-> "R1", network |-> Testnet], [receiver |-> "R1", network |-> Testnet]>>}

SessDestinations(payees) ==
    [j \in 1..Len(payees) |->
        SilentPaymentDestination(PointMul(G, ScanKey(payees[j].receiver)),
                                 PointMul(G, SpendKey(payees[j].receiver)),
                                 payees[j].network, 1000 * j)]

SessInit ==
    /\ probe \in [fn : {"session"}, vinOutpoints : SessOutpointLists, pubkeys : SessPubkeyLists,
                  stage : {"input"}, this : {NoValue}, before : {NoValue}, last : {NoValue},
                  calls : {0}]
    /\ EngineUnused

\* new SilentPaymentBuilder({vinOutpoints, pubkeys}): an exception leaves no object
SessConstruct ==
    /\ probe.stage = "input"
    /\ \E made \in {constructor(probe.vinOutpoints, probe.pubkeys, Mainnet, Null)} :
          probe' = IF made.ok
                   THEN [probe EXCEPT !.stage = "built", !.this = made.this,
                                      !.last = [op |-> "constructor", ok |-> TRUE]]
                   ELSE [probe EXCEPT !.stage = "failed",
                                      !.last = [op |-> "constructor", ok |-> FALSE,
                                                error |-> made.error]]
    /\ UNCHANGED engineVars

\* session.createOutputs(infos, destinations), returning or throwing
SessCreateOutputs ==
    /\ probe.stage = "built" /\ probe.calls < MaxSessCalls
    /\ \E infos \in InputLists, payees \in SessPayeeLists :
          \E out \in {createOutputs(probe.this, infos, SessDestinations(payees))} :
              probe' = [probe EXCEPT !.before = probe.this, !.this = out.this,
                                     !.calls = @ + 1,
                                     !.last = [op |-> "createOutputs", ok |-> out.ok,
                                               infos |-> infos, payees |-> payees,
                                               out |-> out]]
    /\ UNCHANGED engineVars

\* session.spendOutputs(b_scan, b_spend), returning or throwing
SessSpendOutputs ==
    /\ probe.stage = "built" /\ probe.calls < MaxSessCalls
    /\ \E r \in Receivers :
          \E spent \in {spendOutputs(probe.this, ScanKey(r), SpendKey(r))} :
              probe' = [probe EXCEPT !.before = probe.this, !.calls = @ + 1,
                                     !.last = [op |-> "spendOutputs", ok |-> spent.ok,
                                               receiver |-> r, out |-> spent]]
    /\ UNCHANGED engineVars

SessNext == SessConstruct \/ SessCreateOutputs \/ SessSpendOutputs

SpecSess == SessInit /\ [][SessNext]_vars

----------------------------------------------------------------------------
(* Claims about the codecs and liftX                                       *)

\* C4: for every address with valid scan and spend points and version 0, on
\* mainnet and on testnet, fromAddress(addr.toAddress()) has the scan point,
\* the spend point and the network of addr.
C4_AddressRoundTrip ==
    (probe.fn = "address" /\ probe.stage = "parsed") =>
        /\ probe.parsed.ok
        /\ probe.parsed.B_scan = probe.addr.B_scan
        /\ probe.parsed.B_spend = probe.addr.B_spend
        /\ probe.parsed.network = probe.addr.network

\* a testnet address with an odd-Y scan point and an even-Y spend point has been parsed
C4_Witness ==
    /\ probe.fn = "address" /\ probe.stage = "parsed"
    /\ probe.addr.network = Testnet
    /\ probe.addr.B_scan.y % 2 = 1 /\ probe.addr.B_spend.y % 2 = 0
    /\ probe.parsed.ok

HasUpperCase(str) == \E j \in 1..Len(str) : str[j] >= 65 /\ str[j] <= 90

\* C5 as stated: for every HRP of printable-ASCII characters (upper-case
\* letters and "1" included) and every sequence of 5-bit values,
\* decodeBech32(encodeBech32(hrp, data)) returns exactly (hrp, data).
C5_RoundTripEveryHrp ==
    (probe.fn = "bech32" /\ probe.stage = "decoded" /\ ~probe.upper) =>
        /\ probe.decoded.ok
        /\ probe.decoded.hrp = probe.hrp
        /\ probe.decoded.data = probe.data

\* C5 amended: for every HRP of printable-ASCII characters without upper-case
\* letters ("1" included) and every non-empty sequence of 5-bit values,
\* decodeBech32(encodeBech32(hrp, data)) returns exactly (hrp, data).
C5_RoundTrip ==
    (/\ probe.fn = "bech32" /\ probe.stage = "decoded" /\ ~probe.upper
     /\ ~HasUpperCase(probe.hrp) /\ Len(probe.data) >= 1) =>
        /\ probe.decoded.ok
        /\ probe.decoded.hrp = probe.hrp
        /\ probe.decoded.data = probe.data

\* an HRP that contains "1" has made the round trip with three data values
C5_Witness ==
    /\ probe.fn = "bech32" /\ probe.stage = "decoded" /\ ~probe.upper
    /\ probe.hrp = <<97, 49>> /\ Len(probe.data) = 3
    /\ probe.decoded.ok /\ probe.decoded.data = probe.data

ChangesSymbol(s, pos, c) ==
    /\ toLowerCaseChar(c) # toLowerCaseChar(s[pos])
    /\ lastIndexOf([s EXCEPT ![pos] = c], separator) = lastIndexOf(s, separator)

IsSquare(v) == \E y \in 0..(FieldP - 1) : (y * y) % FieldP = v % FieldP

----------------------------------------------------------------------------
(* Claims about createOutputs, scanOutputs and spendOutputs                *)

\* the key of the plain address of receiver r in the result of createOutputs
PlainAddress(r) ==
    toAddress(SilentPaymentDestination(PointMul(G, ScanKey(r)), PointMul(G, SpendKey(r)),
                                       Mainnet, 0))

\* the outputs that createOutputs produced for the plain address of r
ProducedFor(r) ==
    IF PlainAddress(r) \in DOMAIN created.out.result
    THEN created.out.result[PlainAddress(r)] ELSE <<>>

\* the output that createOutputs produced for the destination at position j
OutputAt(j) ==
    LET dest == Destinations(created.payees)[j]
    IN  CHOOSE o \in SeqToSet(created.out.result[toAddress(dest)]) : o.amount = dest.amount

\* the x-only keys of the candidates of the scan
CandidateKeys == {scriptSlice4(call.candidates[j].script) : j \in 1..Len(call.candidates)}

\* a label table with entries was passed to the scan
TableSupplied == DOMAIN call.precomputedLabels # {}

\* C1: createOutputs, then scanOutputs on the produced outputs with the scan
\* key and spend point of a receiver, returns a match with the same taproot
\* address and the same amount for every output produced for that receiver.
C1_SenderReceiverSymmetry ==
    (RetOp = "scanOutputs" /\ SeqToSet(call.candidates) = CreatedOutputs) =>
        /\ ret.ok
        /\ \A j \in 1..Len(ProducedFor(call.receiver)) :
              LET o == ProducedFor(call.receiver)[j]
              IN  /\ o.address.pubkey \in DOMAIN ret.value
                  /\ ret.value[o.address.pubkey].output = o

\* the first destination of receiver r in the list given to createOutputs
FirstPayeeOf(r) ==
    CHOOSE j \in 1..Len(created.payees) :
        /\ created.payees[j].receiver = r
        /\ \A h \in 1..(j - 1) : created.payees[h].receiver # r

\* C2: spendOutputs returns p = (b_spend + t) mod n with p*G the key of the
\* matched output: without receiverTweak, the k = 0 output that createOutputs
\* derived for the receiver; with the tweak that scanOutputs recorded for a
\* match, the key of that match.
C2_SpendKeyOpensOutput ==
    (RetOp = "spendOutputs" /\ ret.ok) =>
        /\ (/\ session.receiverTweak = Null
            /\ \E j \in 1..Len(created.payees) : created.payees[j].receiver = ret.receiver
            /\ ~created.payees[FirstPayeeOf(ret.receiver)].labelled)
              => xOnly(PointMul(G, ret.value))
                    = OutputAt(FirstPayeeOf(ret.receiver)).address.pubkey
        /\ (session.receiverTweak # Null /\ ret.receiver = call.receiver)
              => \A key \in DOMAIN matches :
                    matches[key].tweak = session.receiverTweak
                        => xOnly(PointMul(G, ret.value)) = key

\* the positions of the destinations paid to the labelled address of the
\* receiver of the scan
LabelledPositions ==
    {j \in 1..Len(created.payees) :
        created.payees[j] = [receiver |-> call.receiver, labelled |-> TRUE]}

\* C3: an output paid to B_spend + m*G is recorded by scanOutputs called with B_spend
\* with the label m and the tweak (t_k + m) mod n when the label table has the
\* entry of m*G, and is not recorded when the table omits it.
C3_LabelRoundTrip ==
    RetOp = "scanOutputs" =>
        \A j \in LabelledPositions :
            LET key == OutputAt(j).address.pubkey
                m   == generateLabel(LabelIndex, call.b_scan)
            IN  key \in CandidateKeys =>
                  IF TableSupplied
                  THEN /\ ret.ok
                       /\ key \in DOMAIN ret.value
                       /\ "label" \in DOMAIN ret.value[key]
                       /\ ret.value[key].label = m
                       /\ \E kk \in 0..(MaxDests - 1) :
                             FromBytesBE(ret.value[key].tweak) =
                                 (FromBytesBE(sharedSecretTweak(
                                      encodeCompressed(call.ecdhSharedSecret), kk)) + m) % CurveN
                  ELSE ret.ok /\ key \notin DOMAIN ret.value

\* the x-only keys that belong to the receiver of the scan: P_k and P_k + m*G
ReceiverKeys ==
    LET m  == generateLabel(LabelIndex, call.b_scan)
        Ps == {scanOutputKey(call.ecdhSharedSecret, call.B_spend, kk) : kk \in 0..MaxCandidates}
    IN  {xOnly(P) : P \in Ps} \cup {xOnly(tweakAddPublic(P, m)) : P \in Ps}

NoCandidateBelongs == CandidateKeys \cap ReceiverKeys = {}

\* C8: when no candidate belongs to the receiver (the empty list included),
\* scanOutputs on a session built from public keys and outpoints returns an
\* empty map and raises no error.  (Every scan of Spec runs on such a session.)
C8_NoMatchIsEmptyMap ==
    (RetOp = "scanOutputs" /\ NoCandidateBelongs) => (ret.ok /\ DOMAIN ret.value = {})

\* a scan with a label table over two or more candidates, one of them an
\* output of the transaction paid to somebody else, has returned the empty map
C8_Witness ==
    /\ RetOp = "scanOutputs" /\ NoCandidateBelongs
    /\ Len(call.candidates) >= 2 /\ TableSupplied
    /\ SeqToSet(call.candidates) \cap CreatedOutputs # {}
    /\ ret.ok /\ DOMAIN ret.value = {}

\* C9: scanOutputs terminates for every finite candidate list, whatever the
\* number of matching and non-matching candidates and with or without a label
\* table: once in its loop, the scan returns its result map.
C9_ScanTerminates ==
    (pc = "do") ~> (pc = "idle" /\ RetOp = "scanOutputs" /\ ret.ok)

\* a scan over three candidates with a label table has recorded a match and
\* returned while candidates were left in the list
C9_Witness ==
    /\ pc = "idle" /\ RetOp = "scanOutputs" /\ ret.ok
    /\ Len(call.candidates) = 3 /\ TableSupplied
    /\ DOMAIN ret.value # {} /\ Len(outputsToCheck) > 0

\* C10: after a direct match at k the scan continues with k + 1: when the
\* candidates contain the outputs P_0 .. P_(j-1) that the sender derived for
\* the receiver, all j are recorded, each with its tweak t_k.
C10_ScanContinuesWithNextK ==
    (/\ RetOp = "scanOutputs"
     /\ \A j \in 1..Len(created.payees) :
           created.payees[j] = [receiver |-> call.receiver, labelled |-> FALSE]
     /\ CreatedOutputs \subseteq SeqToSet(call.candidates)) =>
        /\ ret.ok
        /\ \A j \in 1..Len(created.payees) :
              LET key == OutputAt(j).address.pubkey
              IN  /\ key \in DOMAIN ret.value
                  /\ ret.value[key].tweak =
                        sharedSecretTweak(encodeCompressed(call.ecdhSharedSecret), j - 1)

\* C11: at the current k every remaining candidate is compared with P_k and a
\* candidate that does not match is kept: a candidate equal to P_0 is recorded
\* whatever its position and whatever number of other candidates precede it.
C11_P0FoundAtAnyPosition ==
    (RetOp = "scanOutputs"
     /\ xOnly(scanOutputKey(call.ecdhSharedSecret, call.B_spend, 0)) \in CandidateKeys) =>
        /\ ret.ok
        /\ xOnly(scanOutputKey(call.ecdhSharedSecret, call.B_spend, 0)) \in DOMAIN ret.value

\* C12: in every state of a scan the recorded matches are no more than the
\* supplied candidates, every key of the map is the x-only key of a supplied
\* candidate, and k is the number of matches recorded so far.
C12_MatchesWithinCandidates ==
    call # NoValue =>
        /\ Cardinality(DOMAIN matches) <= Len(call.candidates)
        /\ DOMAIN matches \subseteq CandidateKeys
        /\ k = Cardinality(DOMAIN matches)

\* a scan over three candidates has returned with one match recorded and k = 1
C12_Witness ==
    /\ pc = "idle" /\ RetOp = "scanOutputs" /\ ret.ok
    /\ Len(call.candidates) = 3
    /\ Cardinality(DOMAIN matches) = 1 /\ k = 1

\* the output key that grouping by scan key gives the destination at position
\* j: its own ECDH secret, and k its rank among the destinations of its scan key
OwnGroupOutputKey(j) ==
    LET dests  == Destinations(created.payees)
        d      == dests[j]
        a_sum  == sumInputKeys(created.infos).a_sum
        secret == tweakMulPublic(d.B_scan,
                      tweakMulPrivate(a_sum, FromBytesBE(created.out.this.inputHash)))
        rank   == Cardinality({h \in 1..(j - 1) : dests[h].B_scan = d.B_scan})
    IN  xOnly(tweakAddPublic(d.B_spend,
                  FromBytesBE(sharedSecretTweak(encodeCompressed(secret), rank))))

\* C15: createOutputs groups destinations by scan public key: the output of
\* every destination is spendPubkey + t_k*G with t_k from the ECDH secret of
\* its own scan key and k its position among the destinations of that key.
C15_GroupedByScanKey ==
    (created # NoValue /\ created.out.ok) =>
        \A j \in 1..Len(created.payees) : OutputAt(j).address.pubkey = OwnGroupOutputKey(j)

\* "TapTweak"
TagTapTweak == <<84, 97, 112, 84, 119, 101, 97, 107>>

\* the scalar with the even-Y public point among d and n - d
EvenYScalar(d) == IF PointMul(G, d).y % 2 = 1 THEN negate(d) ELSE d

\* tweakPrivateKey(scalar): the even-Y scalar plus the TapTweak scalar, mod n
tweakPrivateKey(d) ==
    (EvenYScalar(d)
     + FromBytesBE(taggedHash(xOnly(PointMul(G, d)), TagTapTweak))) % CurveN

\* what the input info is to add to a_sum
InputContribution(info) ==
    IF ~info.isTaproot THEN info.privkey
    ELSE IF info.tweak THEN EvenYScalar(tweakPrivateKey(info.privkey))
    ELSE EvenYScalar(info.privkey)

RECURSIVE SumContributions(_)
SumContributions(infos) ==
    IF Len(infos) = 0 THEN 0
    ELSE (SumContributions(Tail(infos)) + InputContribution(Head(infos))) % CurveN

\* C17: a taproot input with tweak contributes tweakPrivateKey(scalar) to
\* a_sum, one without tweak its scalar negated exactly when its point has odd
\* Y; in both cases createOutputs succeeds and the contribution has even Y.
C17_TaprootContribution ==
    (created # NoValue /\ \E j \in 1..Len(created.infos) : created.infos[j].isTaproot) =>
        /\ created.out.ok
        /\ created.out.this.A_sum
              = encodeCompressed(PointMul(G, SumContributions(created.infos)))
        /\ \A j \in 1..Len(created.infos) :
              created.infos[j].isTaproot
                  => PointMul(G, InputContribution(created.infos[j])).y % 2 = 0

\* C19: scanOutputs leaves the caller's candidate list with the same elements
\* in the same order, for matching and non-matching candidates alike.
C19_CandidateListUnchanged ==
    (RetOp = "scanOutputs" /\ ret.ok) => outputsToCheck = call.candidates

----------------------------------------------------------------------------
(* Claims about the derived fields of a session                            *)

\* a call has been made on a constructed session
SessCalled == probe.fn = "session" /\ probe.stage = "built" /\ probe.calls > 0

\* C13: A_sum and inputHash are written once, at construction, and no later
\* operation on the session changes either of them.
C13_DerivedFieldsWrittenOnce ==
    SessCalled =>
        /\ probe.this.A_sum = probe.before.A_sum
        /\ probe.this.inputHash = probe.before.inputHash

\* C14: when construction or createOutputs fails no partial derived state is
\* retained: no object is left by a failed construction, and after a failed
\* createOutputs A_sum and inputHash have the values they had before the call.
C14_NoPartialStateOnFailure ==
    /\ (probe.fn = "session" /\ probe.stage = "failed") => probe.this = NoValue
    /\ (SessCalled /\ probe.last.op = "createOutputs" /\ ~probe.last.ok) =>
          /\ probe.this.A_sum = probe.before.A_sum
          /\ probe.this.inputHash = probe.before.inputHash

\* the smallest of the serialized outpoints of a list
SmallestSerialized(outpoints) ==
    CHOOSE low \in {serializeOutpoint(outpoints[j]) : j \in 1..Len(outpoints)} :
        \A j \in 1..Len(outpoints) : ~BufferLess(serializeOutpoint(outpoints[j]), low)

\* C16: inputHash is computed from the smallest serialized outpoint (reversed
\* txid, little-endian index) and A_sum: every order of the same outpoints
\* gives the same inputHash, and the caller's list is left as it was.
C16_InputHashOfSmallestOutpoint ==
    (probe.fn = "session" /\ probe.stage = "built" /\ probe.this.inputHash # Null) =>
        /\ probe.this.inputHash
              = taggedHash(SmallestSerialized(probe.vinOutpoints) \o probe.this.A_sum, TagInputs)
        /\ \A other \in SessOutpointLists :
              Len(other) > 0 =>
                  getInputHash(other, probe.this.A_sum).inputHash = probe.this.inputHash
        /\ probe.this.vinOutpoints = probe.vinOutpoints

\* createOutputs has computed the hash anew on a session whose list has the
\* smallest outpoint in the last place
C16_Witness ==
    /\ SessCalled /\ probe.last.op = "createOutputs" /\ probe.last.ok
    /\ probe.this.inputHash # Null
    /\ Len(probe.vinOutpoints) = 3
    /\ serializeOutpoint(probe.vinOutpoints[3]) = SmallestSerialized(probe.vinOutpoints)

\* the output of the last createOutputs for the destination at position j
SessOutputAt(j) ==
    LET dest == SessDestinations(probe.last.payees)[j]
    IN  CHOOSE o \in SeqToSet(probe.last.out.result[toAddress(dest)]) : o.amount = dest.amount

\* C20: every taproot address that createOutputs returns has the prefix of
\* the network of its own destination ("tb" for testnet, "bc" otherwise),
\* whatever the networks and the order of the other destinations.
C20_PrefixOfOwnNetwork ==
    (SessCalled /\ probe.last.op = "createOutputs" /\ probe.last.ok) =>
        \A j \in 1..Len(probe.last.payees) :
            Slice(SessOutputAt(j).address.address, 1, 2)
                = IF probe.last.payees[j].network = Testnet THEN HrpTb ELSE HrpBc

----------------------------------------------------------------------------
(* Claims about toTaprootAddress                                           *)

\* the TapTweak scalar of an internal point and a script tree of at most one leaf
TapTweakScalar(P, script) ==
    FromBytesBE(taggedHash(xOnly(P) \o (IF script = NoScript THEN <<>>
                                        ELSE tapleafTaggedHash(script)),
                           TagTapTweak)) % CurveN

\* liftX(x(P)) + t * G
TweakedOutputPoint(P, script) ==
    PointAdd(liftX(P.x).point, PointMul(G, TapTweakScalar(P, script)))

\* C18: toTaprootAddress with tweak enabled returns the x-only key of
\* liftX(x(P)) + t*G, t = taggedHash("TapTweak", x(P) followed by the merkle
\* root or by nothing); with tweak disabled it returns x(P) unchanged.
C18_TaprootOutputKey ==
    (probe.fn = "toTaprootAddress" /\ probe.stage = "encoded") =>
        IF probe.tweak
        THEN ~TweakedOutputPoint(probe.point, probe.script).inf =>
                /\ probe.out.ok
                /\ probe.out.pubkey = xOnly(TweakedOutputPoint(probe.point, probe.script))
        ELSE probe.out.ok /\ probe.out.pubkey = xOnly(probe.point)

====
